---- MODULE Spec2Model ----
(***************************************************************************)
(* Floorplan detection overlay and annotation editor.                      *)
(*                                                                         *)
(* Three components of the repository are modelled as state machines:      *)
(*   - ResultViewer  (centre/size boxes in source pixels, palette colours, *)
(*                    html-to-image export)                                *)
(*   - Viewer        (corner boxes normalised to 0..1000, Date.now ids)    *)
(*   - DashboardPage (upload, asynchronous detection request, reset)       *)
(* Each component has its own next-state relation and specification; the   *)
(* variables of the other components keep their initial values.            *)
(***************************************************************************)
EXTENDS Integers, Sequences, FiniteSets, TLC

VARIABLES
    \* ---- ResultViewer props
    predictions,        \* detection list handed to the component
    imageWidth,         \* result.image.width  (0 = missing)
    imageHeight,        \* result.image.height (0 = missing)
    renderError,        \* the render of ResultViewer threw (nothing catches it: the tree unmounts)
    \* ---- ResultViewer state (useState)
    localPredictions,
    hiddenClasses,
    isEditing,
    activeTool,
    selectedClass,
    drawStart,
    drawCurrent,
    exportImageSrc,
    previewImage,
    showExportModal,
    \* ---- ResultViewer asynchronous work in flight
    convPc,             \* mount effect: convertBlobToDataUrl(imageSrc).then(setExportImageSrc)
    exportPc,           \* position of the running handleGeneratePreview, "idle" if none
    activeSrc,          \* local variable activeSrc of handleGeneratePreview
    imgSrcAttr,         \* src of the rendered <img>: exportImageSrc || imageSrc, or as written
                        \* through imageRef.current.src
    downloads,          \* number of files offered for download (link.click())
    exportPromise,      \* promise returned by the last handleGeneratePreview call:
                        \* "none" | "pending" | "fulfilled" | "rejected"
    \* ---- Viewer (corner encoding) props and state
    data,               \* AnalysisResult handed to the component
    elements,
    activeLayers,
    viewerIsEditing,    \* isEditing of Viewer
    editAction,
    selectedType,
    dragStart,
    currentDrag,
    now,                \* Date.now(), in milliseconds since the Viewer was mounted
    saved,              \* number of downloads started by downloadImage
    \* ---- DashboardPage state
    imageSrc,
    result,
    isProcessing,
    error,
    tasks,              \* per file, the position of its running handleFileSelect ("none" if none)
    sampleLoads,        \* sample images being fetched by the sample buttons
    \* ---- conversions between stored boxes and display rectangles
    coords,             \* the box under conversion: its encoding, its stored values, the image
                        \* and rendered sizes, and what it has been converted to so far
    \* ---- useTypewriter
    text,               \* props of the hook
    speed,
    startDelay,
    displayText,
    isFinished,
    mounted,            \* the component using the hook is mounted
    effectGen,          \* number of times the effect has run
    timeoutId,          \* timer held by timeoutId in the closure of the last effect (0 = none)
    timers,             \* pending timers of the event loop, each with the closure it runs in
    waited,             \* time since the last effect ran, counted up to the longest delay
    \* ---- class labels of a scene
    labels,             \* the labels under normalisation: as reported, and the scene made of them
    \* ---- trace
    ev                  \* the DOM event or asynchronous callback dispatched last

rvProps == <<predictions, imageWidth, imageHeight, renderError>>
rvScene == <<localPredictions, hiddenClasses, isEditing, activeTool, selectedClass>>
rvDrag  == <<drawStart, drawCurrent>>
rvExport == <<exportImageSrc, previewImage, showExportModal, convPc, exportPc, activeSrc,
              imgSrcAttr, downloads, exportPromise>>
rvVars  == <<rvProps, rvScene, rvDrag, rvExport>>

viewerVars == <<data, elements, activeLayers, viewerIsEditing, editAction, selectedType,
                dragStart, currentDrag, now, saved>>
dashVars == <<imageSrc, result, isProcessing, error, tasks, sampleLoads>>

twVars == <<text, speed, startDelay, displayText, isFinished, mounted, effectGen, timeoutId,
            timers, waited>>

pureVars == <<coords, twVars, labels>>

vars == <<rvVars, viewerVars, dashVars, pureVars, ev>>

\* ------------------------------------------------------------------------
\* Bounds of the model
\* ------------------------------------------------------------------------
MaxAdded == 1       \* user-drawn elements present in a scene at a time
MaxDownloads == 1   \* downloads counted
MaxCustom == 2      \* elements drawn in the Viewer
MaxTime == 1        \* last millisecond of the Viewer clock
MaxTasks == 2       \* uploads and sample loads in flight on the dashboard
MaxInputChanges == 2  \* changes of the inputs of useTypewriter while it is mounted

\* ------------------------------------------------------------------------
\* Basic helpers
\* ------------------------------------------------------------------------
Min(a, b) == IF a < b THEN a ELSE b
Max(a, b) == IF a > b THEN a ELSE b
Abs(a) == IF a < 0 THEN -a ELSE a

Range(s) == {s[i] : i \in 1..Len(s)}

\* Array.prototype.filter by position: keeps s[i] for the indices i in keep
RECURSIVE SelectIdx(_, _, _)
SelectIdx(s, keep, i) ==
    IF i > Len(s) THEN <<>>
    ELSE IF i \in keep THEN <<s[i]>> \o SelectIdx(s, keep, i + 1)
    ELSE SelectIdx(s, keep, i + 1)

\* ------------------------------------------------------------------------
\* Class labels are sequences of characters so that formatClassName can be
\* computed character by character.
\* ------------------------------------------------------------------------
LowerChars == <<"a","b","c","d","e","f","g","h","i","j","k","l","m",
                "n","o","p","q","r","s","t","u","v","w","x","y","z">>
UpperChars == <<"A","B","C","D","E","F","G","H","I","J","K","L","M",
                "N","O","P","Q","R","S","T","U","V","W","X","Y","Z">>

toUpperCase(ch) ==
    IF \E i \in 1..26 : LowerChars[i] = ch
    THEN UpperChars[CHOOSE i \in 1..26 : LowerChars[i] = ch]
    ELSE ch

toLowerCase(ch) ==
    IF \E i \in 1..26 : UpperChars[i] = ch
    THEN LowerChars[CHOOSE i \in 1..26 : UpperChars[i] = ch]
    ELSE ch

\* mutant: the rest of the label is kept as it is
formatClassName_keepsRest(name) ==
    IF Len(name) = 0 THEN <<>>
    ELSE <<toUpperCase(name[1])>> \o [i \in 1..(Len(name) - 1) |-> name[i + 1]]

formatClassName(name) ==
    IF Len(name) = 0 THEN <<>>
    ELSE <<toUpperCase(name[1])>> \o [i \in 1..(Len(name) - 1) |-> toLowerCase(name[i + 1])]

Door      == <<"D","o","o","r">>
Window    == <<"W","i","n","d","o","w">>
Perimeter == <<"P","e","r","i","m","e","t","e","r">>
Bathroom  == <<"B","a","t","h","r","o","o","m">>
Stairs    == <<"S","t","a","i","r","s">>

availableClasses == <<Perimeter, Bathroom, Window, Door, Stairs>>

\* Class buttons the user presses in the model (a subset of availableClasses)
ClickedClasses == {Door, Window}

\* Colour palette
COLORS == <<"#6366f1", "#ec4899", "#22c55e", "#f97316",
            "#a855f7", "#0ea5e9", "#eab308", "#ef4444">>

\* ------------------------------------------------------------------------
\* Inputs of the ResultViewer
\* ------------------------------------------------------------------------
NoId == ""          \* Prediction.id is optional; "" is falsy like undefined
NoPoint == <<>>     \* null drawStart / drawCurrent

\* confidence is kept in percent (100 = 1.0)
Pred(c, x, y, w, h, conf) ==
    [class |-> c, x |-> x, y |-> y, width |-> w, height |-> h, confidence |-> conf, id |-> NoId]

\* Detection lists delivered by the detection service (labels as reported)
Scenes ==
    { <<>>,
      << Pred(<<"d","o","o","r">>, 20, 20, 20, 20, 90),
         Pred(<<"W","I","N","D","O","W">>, 50, 30, 10, 10, 80) >> }

LongestScene == CHOOSE n \in {Len(sc) : sc \in Scenes} : \A sc \in Scenes : Len(sc) <= n

\* image metadata delivered with the list; 0 is a missing width or height
ImageDims == { <<80, 60>>, <<80, 0>>, <<0, 0>> }

\* getBoundingClientRect() of the rendered image, in display pixels
rect == [width |-> 40, height |-> 30]

\* pointer positions relative to the image (clientX - rect.left, clientY - rect.top);
\* <<50, 30>> lies right of the image, over the edit panel nested in the container
DownPoints == { <<0, 0>>, <<50, 30>> }
MovePoints == { <<10, 10>>, <<4, 36>> }

\* outcomes of Math.random().toString(36).substr(2, 9)
IdPool == {"r1", "r2"}

\* ------------------------------------------------------------------------
\* Derived render data (recomputed on every render)
\* ------------------------------------------------------------------------
area(p) == p.width * p.height

\* mutant: p goes before the elements of its own area
RECURSIVE InsertByArea_beforeEqual(_, _)
InsertByArea_beforeEqual(sorted, p) ==
    IF sorted = <<>> THEN <<p>>
    ELSE IF area(sorted[Len(sorted)]) > area(p) THEN Append(sorted, p)
    ELSE Append(InsertByArea_beforeEqual(SubSeq(sorted, 1, Len(sorted) - 1), p), sorted[Len(sorted)])

\* stable insertion of p into a list sorted by area descending
RECURSIVE InsertByArea(_, _)
InsertByArea(sorted, p) ==
    IF sorted = <<>> THEN <<p>>
    ELSE IF area(sorted[Len(sorted)]) >= area(p) THEN Append(sorted, p)
    ELSE Append(InsertByArea(SubSeq(sorted, 1, Len(sorted) - 1), p), sorted[Len(sorted)])

RECURSIVE SortByArea(_)
SortByArea(s) ==
    IF s = <<>> THEN <<>>
    ELSE InsertByArea(SortByArea(SubSeq(s, 1, Len(s) - 1)), s[Len(s)])

\* [...localPredictions].sort((a, b) => areaB - areaA)  (Array.sort is stable)
sortedPredictions(preds) == SortByArea(preds)

\* class labels in order of first occurrence in s
RECURSIVE FirstSeen(_)
FirstSeen(s) ==
    IF s = <<>> THEN <<>>
    ELSE LET rest == FirstSeen(SubSeq(s, 1, Len(s) - 1))
             c == s[Len(s)].class
         IN IF c \in Range(rest) THEN rest ELSE Append(rest, c)

\* mutant: the colour is picked by the render index of the first element of
\* the class instead of the number of classes met so far
classColors_byIndex(preds) ==
    LET sp == sortedPredictions(preds)
        first(c) == (CHOOSE i \in 1..Len(sp) :
                        (sp[i].class = c) /\ (\A j \in 1..(i - 1) : sp[j].class # c)) - 1
    IN [c \in {sp[i].class : i \in 1..Len(sp)} |-> COLORS[(first(c) % Len(COLORS)) + 1]]

\* classColors: Map filled while iterating sortedPredictions;
\* the k-th new label (k from 0) gets COLORS[k % COLORS.length]
classColors(preds) ==
    LET order == FirstSeen(sortedPredictions(preds))
        size(c) == (CHOOSE k \in 1..Len(order) : order[k] = c) - 1
    IN [c \in Range(order) |-> COLORS[(size(c) % Len(COLORS)) + 1]]

\* summaryData: per class of sortedPredictions, count and index of first occurrence (0-based)
firstIndexOf(sp, c) ==
    (CHOOSE i \in 1..Len(sp) : (sp[i].class = c) /\ (\A j \in 1..(i - 1) : sp[j].class # c)) - 1

\* mutant: the summary is built from the list in insertion order
summaryData_insertionOrder(preds) ==
    LET sp == preds
    IN [c \in {sp[i].class : i \in 1..Len(sp)} |->
          [count |-> Cardinality({i \in 1..Len(sp) : sp[i].class = c}),
           firstIndex |-> firstIndexOf(sp, c)]]

summaryData(preds) ==
    LET sp == sortedPredictions(preds)
    IN [c \in {sp[i].class : i \in 1..Len(sp)} |->
          [count |-> Cardinality({i \in 1..Len(sp) : sp[i].class = c}),
           firstIndex |-> firstIndexOf(sp, c)]]

\* key of a rendered box: pred.id || `${class}-${x}-${y}-${width}-${height}`
uniqueKey(p) ==
    IF p.id # NoId THEN <<"id", p.id>>
    ELSE <<"geo", p.class, p.x, p.y, p.width, p.height>>

\* mutant: the filter on hiddenClasses is dropped
visiblePredictions_unfiltered(preds, hidden) == sortedPredictions(preds)

\* sortedPredictions.filter(pred => !hiddenClasses.has(pred.class))
visiblePredictions(preds, hidden) ==
    LET sp == sortedPredictions(preds)
    IN SelectIdx(sp, {i \in 1..Len(sp) : sp[i].class \notin hidden}, 1)

\* boxes placed in the overlay layer: the map callback returns null for every
\* element when image metadata is missing
overlay(preds, hidden, iw, ih) ==
    IF iw = 0 \/ ih = 0 THEN <<>> ELSE visiblePredictions(preds, hidden)

\* ------------------------------------------------------------------------
\* ResultViewer: construction
\* ------------------------------------------------------------------------
\* the blob: URL the dashboard passes as imageSrc, and what it can be converted to
BlobUrl == "blob:preview"
DataUrl == "data:image/png;base64"
NoPreview == <<>>   \* null previewImage

\* the `predictions` prop, result.predictions of the detection response as the
\* page hands it over unvalidated: a list, or not a list (missing, null)
PredictionsProps ==
    {[isArray |-> TRUE, list |-> s] : s \in Scenes} \cup {[isArray |-> FALSE, list |-> <<>>]}

\* useState initialisers of ResultViewer.  predictions.map(...) throws a
\* TypeError when predictions is not a list: the render fails and
\* localPredictions never holds a value (modelled as the empty list).
RVInit ==
    /\ \E p \in PredictionsProps :
          /\ predictions = p.list
          /\ renderError = ~p.isArray
    /\ \E d \in ImageDims : imageWidth = d[1] /\ imageHeight = d[2]
    /\ localPredictions =
          [i \in 1..Len(predictions) |->
              [predictions[i] EXCEPT !.class = formatClassName(predictions[i].class)]]
    /\ hiddenClasses = {}
    /\ isEditing = FALSE
    /\ activeTool = "add"
    /\ selectedClass = Door
    /\ drawStart = NoPoint
    /\ drawCurrent = NoPoint
    /\ exportImageSrc = ""
    /\ previewImage = NoPreview
    /\ showExportModal = FALSE
    /\ convPc = "pending"
    /\ exportPc = "idle"
    /\ activeSrc = ""
    /\ imgSrcAttr = BlobUrl
    /\ downloads = 0
    /\ exportPromise = "none"

\* ------------------------------------------------------------------------
\* ResultViewer: scene operations
\* ------------------------------------------------------------------------
isRemoveMode == isEditing /\ activeTool = "remove"

userAdded(preds) == {i \in 1..Len(preds) : preds[i].id # NoId}

\* mutant: the class is added whether or not it is already hidden
toggledClasses_addOnly(prev, className) ==
    prev \cup {className}

\* the updater of setHiddenClasses in toggleClass: a copy of prev with
\* className deleted if present, added if not
toggledClasses(prev, className) ==
    IF className \in prev THEN prev \ {className} ELSE prev \cup {className}

\* mutant: hiding a class also drops its elements from the list
toggleClass_deletes(className) ==
    /\ ~renderError
    /\ className \in DOMAIN summaryData(localPredictions)
    /\ hiddenClasses' = toggledClasses(hiddenClasses, className)
    /\ localPredictions' =
          SelectIdx(localPredictions,
                    {i \in 1..Len(localPredictions) : localPredictions[i].class # className}, 1)
    /\ ev' = "legend"
    /\ UNCHANGED <<viewerVars, dashVars, pureVars, rvProps, isEditing, activeTool, selectedClass,
                   rvDrag, rvExport>>

\* legend row onClick={() => toggleClass(className)}; rows exist for the keys of summaryData
toggleClass(className) ==
    /\ ~renderError
    /\ className \in DOMAIN summaryData(localPredictions)
    /\ hiddenClasses' = toggledClasses(hiddenClasses, className)
    /\ ev' = "legend"
    /\ UNCHANGED <<viewerVars, dashVars, pureVars, rvProps, localPredictions, isEditing, activeTool, selectedClass,
                   rvDrag, rvExport>>

\* edit panel onClick={() => !isEditing && setIsEditing(true)}
enterEditMode ==
    /\ ~renderError
    /\ isEditing' = TRUE
    /\ ev' = "panel"
    /\ UNCHANGED <<viewerVars, dashVars, pureVars, rvProps, localPredictions, hiddenClasses, activeTool, selectedClass,
                   rvDrag, rvExport>>

\* DONE button: setIsEditing(false)
leaveEditMode ==
    /\ ~renderError
    /\ isEditing
    /\ isEditing' = FALSE
    /\ ev' = "panel"
    /\ UNCHANGED <<viewerVars, dashVars, pureVars, rvProps, localPredictions, hiddenClasses, activeTool, selectedClass,
                   rvDrag, rvExport>>

\* Add / Remove buttons of the segmented control (rendered while editing)
setActiveTool(tool) ==
    /\ ~renderError
    /\ isEditing
    /\ activeTool' = tool
    /\ ev' = "panel"
    /\ UNCHANGED <<viewerVars, dashVars, pureVars, rvProps, localPredictions, hiddenClasses, isEditing, selectedClass,
                   rvDrag, rvExport>>

\* class list buttons (rendered while editing)
setSelectedClass(cls) ==
    /\ ~renderError
    /\ isEditing
    /\ selectedClass' = cls
    /\ ev' = "panel"
    /\ UNCHANGED <<viewerVars, dashVars, pureVars, rvProps, localPredictions, hiddenClasses, isEditing, activeTool,
                   rvDrag, rvExport>>

handleMouseDown(pt) ==
    /\ ~renderError
    /\ IF ~isEditing \/ activeTool # "add"
       THEN UNCHANGED rvDrag
       ELSE /\ drawStart' = pt
            /\ drawCurrent' = pt
    /\ ev' = "mousedown"
    /\ UNCHANGED <<viewerVars, dashVars, pureVars, rvProps, rvScene, rvExport>>

handleMouseMove(pt) ==
    /\ ~renderError
    /\ IF ~isEditing \/ activeTool # "add" \/ drawStart = NoPoint
       THEN UNCHANGED rvDrag
       ELSE /\ drawCurrent' = << Max(0, Min(pt[1], rect.width)),
                                 Max(0, Min(pt[2], rect.height)) >>
            /\ UNCHANGED drawStart
    /\ ev' = "mousemove"
    /\ UNCHANGED <<viewerVars, dashVars, pureVars, rvProps, rvScene, rvExport>>

\* the prediction built by handleMouseUp from the drag rectangle.  The products
\* with scaleX = imageWidth / rect.width are formed before the division, which
\* is exact for the image and rendered sizes of the model.
newPredictionAt(start, cur, cls, id, iw, ih, r) ==
    LET x1 == Min(start[1], cur[1])
        y1 == Min(start[2], cur[2])
        w == Abs(cur[1] - start[1])
        h == Abs(cur[2] - start[2])
    IN [class |-> cls,
        x |-> ((2 * x1 + w) * iw) \div (2 * r.width),
        y |-> ((2 * y1 + h) * ih) \div (2 * r.height),
        width |-> (w * iw) \div r.width,
        height |-> (h * ih) \div r.height,
        confidence |-> 100,
        id |-> id]

\* handleMouseUp with the image metadata of the props and the rendered size
newPrediction(start, cur, cls, id) ==
    newPredictionAt(start, cur, cls, id, imageWidth, imageHeight, rect)

\* mutant: the threshold is 15 display pixels
tooSmall_threshold15(start, cur) ==
    Abs(cur[1] - start[1]) < 15 \/ Abs(cur[2] - start[2]) < 15

\* `if (w < 10 || h < 10)` of handleMouseUp, on the drag rectangle in display pixels
tooSmall(start, cur) ==
    Abs(cur[1] - start[1]) < 10 \/ Abs(cur[2] - start[2]) < 10

\* mutant: the image dimensions are not tested
mouseUpBody_ignoresDims ==
    IF ~isEditing \/ activeTool # "add" \/ drawStart = NoPoint \/ drawCurrent = NoPoint
    THEN /\ drawStart' = NoPoint
         /\ drawCurrent' = NoPoint
         /\ UNCHANGED localPredictions
    ELSE IF tooSmall(drawStart, drawCurrent)
    THEN /\ drawStart' = NoPoint
         /\ drawCurrent' = NoPoint
         /\ UNCHANGED localPredictions
    ELSE /\ Cardinality(userAdded(localPredictions)) < MaxAdded
         /\ \E id \in IdPool :
               localPredictions' =
                   Append(localPredictions, newPrediction(drawStart, drawCurrent, selectedClass, id))
         /\ drawStart' = NoPoint
         /\ drawCurrent' = NoPoint

\* body shared by onMouseUp and onMouseLeave of the image container
mouseUpBody ==
    IF ~isEditing \/ activeTool # "add" \/ drawStart = NoPoint \/ drawCurrent = NoPoint
          \/ imageWidth = 0 \/ imageHeight = 0
    THEN /\ drawStart' = NoPoint
         /\ drawCurrent' = NoPoint
         /\ UNCHANGED localPredictions
    ELSE IF tooSmall(drawStart, drawCurrent)
    THEN /\ drawStart' = NoPoint
         /\ drawCurrent' = NoPoint
         /\ UNCHANGED localPredictions
    ELSE /\ Cardinality(userAdded(localPredictions)) < MaxAdded
         /\ \E id \in IdPool :
               localPredictions' =
                   Append(localPredictions, newPrediction(drawStart, drawCurrent, selectedClass, id))
         /\ drawStart' = NoPoint
         /\ drawCurrent' = NoPoint

handleMouseUp ==
    /\ ~renderError
    /\ mouseUpBody
    /\ ev' = "mouseup"
    /\ UNCHANGED <<viewerVars, dashVars, pureVars, rvProps, hiddenClasses, isEditing, activeTool, selectedClass, rvExport>>

\* onMouseLeave={handleMouseUp}
onMouseLeave ==
    /\ ~renderError
    /\ mouseUpBody
    /\ ev' = "mouseleave"
    /\ UNCHANGED <<viewerVars, dashVars, pureVars, rvProps, hiddenClasses, isEditing, activeTool, selectedClass, rvExport>>

\* prev.filter(p => p !== predToRemove): the prediction is removed by object
\* identity, i.e. by its position in localPredictions
removePrediction(i) ==
    IF ~isEditing \/ activeTool # "remove"
    THEN UNCHANGED localPredictions
    ELSE localPredictions' = SelectIdx(localPredictions, (1..Len(localPredictions)) \ {i}, 1)

\* onClick of the rendered box of localPredictions[i]
boxClick(i) ==
    /\ ~renderError
    /\ i \in 1..Len(localPredictions)
    /\ \E k \in 1..Len(overlay(localPredictions, hiddenClasses, imageWidth, imageHeight)) :
          overlay(localPredictions, hiddenClasses, imageWidth, imageHeight)[k] = localPredictions[i]
    /\ IF isRemoveMode THEN removePrediction(i) ELSE UNCHANGED localPredictions
    /\ ev' = "click"
    /\ UNCHANGED <<viewerVars, dashVars, pureVars, rvProps, hiddenClasses, isEditing, activeTool, selectedClass, rvDrag, rvExport>>

NextRV ==
    \/ \E c \in {Door, Window} : toggleClass(c)
    \/ enterEditMode
    \/ leaveEditMode
    \/ \E t \in {"add", "remove"} : setActiveTool(t)
    \/ \E c \in ClickedClasses : setSelectedClass(c)
    \/ \E pt \in DownPoints : handleMouseDown(pt)
    \/ \E pt \in MovePoints : handleMouseMove(pt)
    \/ handleMouseUp
    \/ onMouseLeave
    \/ \E i \in 1..(LongestScene + MaxAdded) : boxClick(i)


\* ------------------------------------------------------------------------
\* ResultViewer: export
\* ------------------------------------------------------------------------
\* values convertBlobToDataUrl can resolve with: the data URL, or the blob URL
\* itself when fetch()/blob() throws (the catch branch)
ConvertResults == {DataUrl, BlobUrl}

\* what toPng(captureRef.current, ...) rasterises: the image, the summary panel
\* and the overlay boxes; the edit panel carries exclude-from-export
capture ==
    [src |-> imgSrcAttr,
     summary |-> summaryData(localPredictions),
     boxes |-> overlay(localPredictions, hiddenClasses, imageWidth, imageHeight)]

\* `.then(setExportImageSrc)` of the mount effect
convResolved(v) ==
    /\ ~renderError
    /\ convPc = "pending"
    /\ convPc' = "done"
    /\ exportImageSrc' = v
    /\ imgSrcAttr' = v
    /\ ev' = "conversion"
    /\ UNCHANGED <<viewerVars, dashVars, pureVars, rvProps, rvScene, rvDrag, previewImage, showExportModal, exportPc,
                   activeSrc, downloads, exportPromise>>

\* the FileReader promise of the mount effect rejects (nothing handles it)
convRejected ==
    /\ ~renderError
    /\ convPc = "pending"
    /\ convPc' = "rejected"
    /\ ev' = "conversion"
    /\ UNCHANGED <<viewerVars, dashVars, pureVars, rvProps, rvScene, rvDrag, exportImageSrc, previewImage, showExportModal,
                   exportPc, activeSrc, imgSrcAttr, downloads, exportPromise>>

\* position after the source is settled: wait for load unless the image is
\* complete and shows the expected source
afterSource(complete, src) ==
    IF ~complete \/ imgSrcAttr' # src THEN "waitLoad" ELSE "decoding"

\* Download button: handleGeneratePreview up to its first await
handleGeneratePreview ==
    /\ ~renderError
    /\ exportPc = "idle"
    /\ activeSrc' = exportImageSrc
    /\ IF exportImageSrc = ""
       THEN /\ exportPc' = "converting"
            /\ UNCHANGED imgSrcAttr
       ELSE /\ UNCHANGED imgSrcAttr
            /\ \E complete \in BOOLEAN : exportPc' = afterSource(complete, exportImageSrc)
    /\ exportPromise' = "pending"
    /\ ev' = "export"
    /\ UNCHANGED <<viewerVars, dashVars, pureVars, rvProps, rvScene, rvDrag, exportImageSrc, previewImage, showExportModal,
                   convPc, downloads>>

\* `activeSrc = await convertBlobToDataUrl(imageSrc)` resumes with v
exportConverted(v) ==
    /\ ~renderError
    /\ exportPc = "converting"
    /\ activeSrc' = v
    /\ exportImageSrc' = v
    /\ imgSrcAttr' = v
    /\ \E complete \in BOOLEAN : exportPc' = afterSource(complete, v)
    /\ ev' = "export"
    /\ UNCHANGED <<viewerVars, dashVars, pureVars, rvProps, rvScene, rvDrag, previewImage, showExportModal, convPc, downloads, exportPromise>>

\* the awaited conversion rejects (FileReader error, or a result that is not a
\* string): caught by the catch of handleGeneratePreview, which logs the error
\* and returns, so the promise of the call is fulfilled
exportConvertFailed ==
    /\ ~renderError
    /\ exportPc = "converting"
    /\ exportPc' = "idle"
    /\ exportPromise' = "fulfilled"
    /\ ev' = "exportFailed"
    /\ UNCHANGED <<viewerVars, dashVars, pureVars, rvProps, rvScene, rvDrag, exportImageSrc, previewImage, showExportModal,
                   convPc, activeSrc, imgSrcAttr, downloads>>

\* onload / onerror of the image resolves the wait
exportImageSettled ==
    /\ ~renderError
    /\ exportPc = "waitLoad"
    /\ exportPc' = "decoding"
    /\ ev' = "export"
    /\ UNCHANGED <<viewerVars, dashVars, pureVars, rvProps, rvScene, rvDrag, exportImageSrc, previewImage, showExportModal,
                   convPc, activeSrc, imgSrcAttr, downloads, exportPromise>>

\* setTimeout(resolve, 500) resolves the wait
exportWaitTimeout ==
    /\ ~renderError
    /\ exportPc = "waitLoad"
    /\ exportPc' = "decoding"
    /\ ev' = "timeout"
    /\ UNCHANGED <<viewerVars, dashVars, pureVars, rvProps, rvScene, rvDrag, exportImageSrc, previewImage, showExportModal,
                   convPc, activeSrc, imgSrcAttr, downloads, exportPromise>>

\* `try { await imageRef.current.decode() } catch (e) { }` resumes either way
exportDecodeSettled ==
    /\ ~renderError
    /\ exportPc = "decoding"
    /\ exportPc' = "capturing"
    /\ ev' = "export"
    /\ UNCHANGED <<viewerVars, dashVars, pureVars, rvProps, rvScene, rvDrag, exportImageSrc, previewImage, showExportModal,
                   convPc, activeSrc, imgSrcAttr, downloads, exportPromise>>

\* mutant: showing the preview also leaves edit mode
exportCaptured_leavesEditMode ==
    /\ ~renderError
    /\ exportPc = "capturing"
    /\ exportPc' = "idle"
    /\ previewImage' = <<capture>>
    /\ showExportModal' = TRUE
    /\ isEditing' = FALSE
    /\ exportPromise' = "fulfilled"
    /\ ev' = "export"
    /\ UNCHANGED <<viewerVars, dashVars, pureVars, rvProps, localPredictions, hiddenClasses, activeTool,
                   selectedClass, rvDrag, exportImageSrc, convPc, activeSrc, imgSrcAttr, downloads>>

\* toPng resolves: setPreviewImage(dataUrl); setShowExportModal(true)
exportCaptured ==
    /\ ~renderError
    /\ exportPc = "capturing"
    /\ exportPc' = "idle"
    /\ previewImage' = <<capture>>
    /\ showExportModal' = TRUE
    /\ exportPromise' = "fulfilled"
    /\ ev' = "export"
    /\ UNCHANGED <<viewerVars, dashVars, pureVars, rvProps, rvScene, rvDrag, exportImageSrc, convPc, activeSrc, imgSrcAttr,
                   downloads>>

\* toPng rejects: console.error in the catch branch, then the function returns
\* normally, so the promise of the call is fulfilled
exportCaptureFailed ==
    /\ ~renderError
    /\ exportPc = "capturing"
    /\ exportPc' = "idle"
    /\ exportPromise' = "fulfilled"
    /\ ev' = "exportFailed"
    /\ UNCHANGED <<viewerVars, dashVars, pureVars, rvProps, rvScene, rvDrag, exportImageSrc, previewImage, showExportModal,
                   convPc, activeSrc, imgSrcAttr, downloads>>

\* SAVE IMAGE button of the preview modal
handleSaveImage ==
    /\ ~renderError
    /\ showExportModal /\ previewImage # NoPreview
    /\ downloads < MaxDownloads
    /\ downloads' = downloads + 1
    /\ ev' = "save"
    /\ UNCHANGED <<viewerVars, dashVars, pureVars, rvProps, rvScene, rvDrag, exportImageSrc, previewImage, showExportModal,
                   convPc, exportPc, activeSrc, imgSrcAttr, exportPromise>>

\* X button of the preview modal
closeExportModal ==
    /\ ~renderError
    /\ showExportModal /\ previewImage # NoPreview
    /\ showExportModal' = FALSE
    /\ ev' = "save"
    /\ UNCHANGED <<viewerVars, dashVars, pureVars, rvProps, rvScene, rvDrag, exportImageSrc, previewImage, convPc, exportPc,
                   activeSrc, imgSrcAttr, downloads, exportPromise>>

NextExport ==
    \/ \E v \in ConvertResults : convResolved(v)
    \/ convRejected
    \/ handleGeneratePreview
    \/ \E v \in ConvertResults : exportConverted(v)
    \/ exportConvertFailed
    \/ exportImageSettled
    \/ exportWaitTimeout
    \/ exportDecodeSettled
    \/ exportCaptured
    \/ exportCaptureFailed
    \/ handleSaveImage
    \/ closeExportModal

\* scene operations interleaved with an export (no drawing)
NextLegend ==
    \/ \E c \in {Door, Window} : toggleClass(c)
    \/ enterEditMode
    \/ leaveEditMode
    \/ \E t \in {"add", "remove"} : setActiveTool(t)
    \/ \E c \in ClickedClasses : setSelectedClass(c)

\* ------------------------------------------------------------------------
\* Viewer (corner encoding, [ymin, xmin, ymax, xmax] normalised to 0..1000)
\* ------------------------------------------------------------------------
\* COLORS of Viewer: element type -> colour
ViewerCOLORS ==
    [perimeter |-> "#4a90e2", bathroom |-> "#e24a8d", window |-> "#50e3c2",
     door |-> "#f5a623", stairs |-> "#9b59b6", furniture |-> "#95a5a6"]

\* layer rows the user clicks in the model
ToggledLayers == {"window", "furniture"}
\* item types the user selects in the model
ClickedTypes == {"window", "door"}

PlanElement(id, type, label, box) == [id |-> id, type |-> type, label |-> label, box_2d |-> box]

\* analysis results handed to the Viewer
ViewerData ==
    { [elements |-> <<>>],
      [elements |-> << PlanElement(<<"el", 1>>, "window", <<"Bay window">>, <<100, 500, 200, 700>>),
                       PlanElement(<<"el", 2>>, "door", <<"Front door">>, <<400, 100, 500, 150>>) >>] }

LongestData ==
    CHOOSE n \in {Len(d.elements) : d \in ViewerData} : \A d \in ViewerData : Len(d.elements) <= n

\* getBoundingClientRect() of the Viewer image, in display pixels
viewerRect == [width |-> 1000, height |-> 1000]

\* pointer positions relative to the Viewer image, in display pixels
ViewerDownPoints == { <<0, 0>> }
ViewerMovePoints == { <<10, 10>>, <<1200, 11>> }

\* Math.round(n / d) for d > 0: the nearest integer, halves rounded up
Round(n, d) == (2 * n + d) \div (2 * d)

\* stable insertion into a list sorted by xmin ascending
RECURSIVE InsertByXmin(_, _)
InsertByXmin(sorted, e) ==
    IF sorted = <<>> THEN <<e>>
    ELSE IF sorted[Len(sorted)].box_2d[2] <= e.box_2d[2] THEN Append(sorted, e)
    ELSE Append(InsertByXmin(SubSeq(sorted, 1, Len(sorted) - 1), e), sorted[Len(sorted)])

\* [...data.elements].sort((a, b) => a.box_2d[1] - b.box_2d[1])
RECURSIVE SortByXmin(_)
SortByXmin(s) ==
    IF s = <<>> THEN <<>>
    ELSE InsertByXmin(SortByXmin(SubSeq(s, 1, Len(s) - 1)), s[Len(s)])

\* useState initialisers of Viewer followed by the mount effect
ViewerInitWith(d) ==
    /\ data = d
    /\ elements = SortByXmin(d.elements)
    /\ activeLayers = [k \in {"perimeter", "bathroom", "window", "door", "stairs"} |-> TRUE]
    /\ viewerIsEditing = FALSE
    /\ editAction = "none"
    /\ selectedType = "window"
    /\ dragStart = NoPoint
    /\ currentDrag = NoPoint
    /\ now = 0
    /\ saved = 0

ViewerInit == \E d \in ViewerData : ViewerInitWith(d)

\* activeLayers[key] as a condition (a missing key is undefined, hence falsy)
layerOn(key) == key \in DOMAIN activeLayers /\ activeLayers[key]

\* currentSummary[type] || 0
currentSummary(type) == Cardinality({i \in 1..Len(elements) : elements[i].type = type})

\* prev[key] as a condition (a missing key is undefined, hence falsy)
layerShown(prev, key) == key \in DOMAIN prev /\ prev[key]

\* { ...prev, [key]: !prev[key] }
toggledLayers(prev, key) ==
    [k \in DOMAIN prev \cup {key} |-> IF k = key THEN ~layerShown(prev, key) ELSE prev[k]]

\* setActiveLayers(prev => ({ ...prev, [key]: !prev[key] })), from the row of the
\* left sidebar (hidden when count is 0 and the layer is off) or, while editing,
\* from the checkbox of the right sidebar (no furniture checkbox)
toggleLayer(key) ==
    /\ \/ ~(currentSummary(key) = 0 /\ ~layerOn(key))
       \/ viewerIsEditing /\ key # "furniture"
    /\ activeLayers' = toggledLayers(activeLayers, key)
    /\ ev' = "legend"
    /\ UNCHANGED <<rvVars, dashVars, pureVars, data, elements, viewerIsEditing, editAction, selectedType, dragStart,
                   currentDrag, now, saved>>

\* Edit button: setIsEditing(true)
viewerEdit ==
    /\ ~viewerIsEditing
    /\ viewerIsEditing' = TRUE
    /\ ev' = "panel"
    /\ UNCHANGED <<rvVars, dashVars, pureVars, data, elements, activeLayers, editAction, selectedType, dragStart,
                   currentDrag, now, saved>>

\* mutant: DONE leaves the edit action as it is
viewerDone_keepsAction ==
    /\ viewerIsEditing
    /\ viewerIsEditing' = FALSE
    /\ ev' = "panel"
    /\ UNCHANGED <<rvVars, dashVars, pureVars, data, elements, activeLayers, editAction, selectedType, dragStart,
                   currentDrag, now, saved>>

\* DONE button: setIsEditing(false); setEditAction('none')
viewerDone ==
    /\ viewerIsEditing
    /\ viewerIsEditing' = FALSE
    /\ editAction' = "none"
    /\ ev' = "panel"
    /\ UNCHANGED <<rvVars, dashVars, pureVars, data, elements, activeLayers, selectedType, dragStart, currentDrag, now, saved>>

\* ADD / REMOVE buttons: setEditAction(editAction === a ? 'none' : a)
setEditAction(a) ==
    /\ viewerIsEditing
    /\ editAction' = IF editAction = a THEN "none" ELSE a
    /\ ev' = "panel"
    /\ UNCHANGED <<rvVars, dashVars, pureVars, data, elements, activeLayers, viewerIsEditing, selectedType, dragStart,
                   currentDrag, now, saved>>

\* type buttons, rendered while editing with the add action
setSelectedType(type) ==
    /\ viewerIsEditing /\ editAction = "add"
    /\ selectedType' = type
    /\ ev' = "panel"
    /\ UNCHANGED <<rvVars, dashVars, pureVars, data, elements, activeLayers, viewerIsEditing, editAction, dragStart,
                   currentDrag, now, saved>>

\* client coordinates -> 0..1000, for an image rendered with rectangle r
getNormalizedCoordsAt(pt, r) ==
    << Max(0, Min(1000, Round(pt[1] * 1000, r.width))),
       Max(0, Min(1000, Round(pt[2] * 1000, r.height))) >>

\* client coordinates -> 0..1000
getNormalizedCoords(pt) == getNormalizedCoordsAt(pt, viewerRect)

viewerMouseDown(pt) ==
    /\ IF editAction # "add"
       THEN UNCHANGED <<dragStart, currentDrag>>
       ELSE /\ dragStart' = getNormalizedCoords(pt)
            /\ currentDrag' = getNormalizedCoords(pt)
    /\ ev' = "mousedown"
    /\ UNCHANGED <<rvVars, dashVars, pureVars, data, elements, activeLayers, viewerIsEditing, editAction, selectedType,
                   now, saved>>

\* mutant: the pointer position is normalised without being clamped
viewerMouseMove_unclamped(pt) ==
    /\ IF editAction # "add" \/ dragStart = NoPoint
       THEN UNCHANGED <<dragStart, currentDrag>>
       ELSE /\ currentDrag' = << Round(pt[1] * 1000, viewerRect.width),
                                 Round(pt[2] * 1000, viewerRect.height) >>
            /\ UNCHANGED dragStart
    /\ ev' = "mousemove"
    /\ UNCHANGED <<rvVars, dashVars, pureVars, data, elements, activeLayers, viewerIsEditing, editAction, selectedType,
                   now, saved>>

viewerMouseMove(pt) ==
    /\ IF editAction # "add" \/ dragStart = NoPoint
       THEN UNCHANGED <<dragStart, currentDrag>>
       ELSE /\ currentDrag' = getNormalizedCoords(pt)
            /\ UNCHANGED dragStart
    /\ ev' = "mousemove"
    /\ UNCHANGED <<rvVars, dashVars, pureVars, data, elements, activeLayers, viewerIsEditing, editAction, selectedType,
                   now, saved>>

\* the element built by handleMouseUp of Viewer; its id is `custom-${Date.now()}`
newEl(start, cur, type, t) ==
    LET ymin == Min(start[2], cur[2])
        xmin == Min(start[1], cur[1])
        ymax == Max(start[2], cur[2])
        xmax == Max(start[1], cur[1])
    IN PlanElement(<<"custom", t>>, type, <<type, " (Manual)">>, <<ymin, xmin, ymax, xmax>>)

customCount == Cardinality({i \in 1..Len(elements) : elements[i].id[1] = "custom"})

viewerMouseUp ==
    /\ IF editAction # "add" \/ dragStart = NoPoint \/ currentDrag = NoPoint
       THEN UNCHANGED <<elements, dragStart, currentDrag>>
       ELSE /\ IF Abs(currentDrag[1] - dragStart[1]) > 10 /\ Abs(currentDrag[2] - dragStart[2]) > 10
               THEN /\ customCount < MaxCustom
                    /\ elements' = Append(elements, newEl(dragStart, currentDrag, selectedType, now))
               ELSE UNCHANGED elements
            /\ dragStart' = NoPoint
            /\ currentDrag' = NoPoint
    /\ ev' = "mouseup"
    /\ UNCHANGED <<rvVars, dashVars, pureVars, data, activeLayers, viewerIsEditing, editAction, selectedType, now, saved>>

\* onMouseLeave={() => { setDragStart(null); setCurrentDrag(null); }}
viewerMouseLeave ==
    /\ dragStart' = NoPoint
    /\ currentDrag' = NoPoint
    /\ ev' = "mouseleave"
    /\ UNCHANGED <<rvVars, dashVars, pureVars, data, elements, activeLayers, viewerIsEditing, editAction, selectedType,
                   now, saved>>

\* mutant: the test of editAction is dropped
handleBoxClick_ungated(i) ==
    /\ i \in 1..Len(elements)
    /\ layerOn(elements[i].type)
    /\ elements' = SelectIdx(elements,
                             {j \in 1..Len(elements) : elements[j].id # elements[i].id}, 1)
    /\ ev' = "click"
    /\ UNCHANGED <<rvVars, dashVars, pureVars, data, activeLayers, viewerIsEditing, editAction, selectedType,
                   dragStart, currentDrag, now, saved>>

\* onClick of the rendered box of elements[i]: handleBoxClick(el.id, e)
handleBoxClick(i) ==
    /\ i \in 1..Len(elements)
    /\ layerOn(elements[i].type)
    /\ IF editAction = "remove"
       THEN elements' = SelectIdx(elements,
                                  {j \in 1..Len(elements) : elements[j].id # elements[i].id}, 1)
       ELSE UNCHANGED elements
    /\ ev' = "click"
    /\ UNCHANGED <<rvVars, dashVars, pureVars, data, activeLayers, viewerIsEditing, editAction, selectedType, dragStart,
                   currentDrag, now, saved>>

\* SAVE IMAGE button (rendered while editing): downloads the source image
downloadImage ==
    /\ viewerIsEditing
    /\ saved < MaxDownloads
    /\ saved' = saved + 1
    /\ ev' = "save"
    /\ UNCHANGED <<rvVars, dashVars, pureVars, data, elements, activeLayers, viewerIsEditing, editAction, selectedType,
                   dragStart, currentDrag, now>>

\* a millisecond passes
Tick ==
    /\ now < MaxTime
    /\ now' = now + 1
    /\ ev' = "tick"
    /\ UNCHANGED <<rvVars, dashVars, pureVars, data, elements, activeLayers, viewerIsEditing, editAction, selectedType,
                   dragStart, currentDrag, saved>>

NextViewer ==
    \/ \E k \in ToggledLayers : toggleLayer(k)
    \/ viewerEdit
    \/ viewerDone
    \/ \E a \in {"add", "remove"} : setEditAction(a)
    \/ \E t \in ClickedTypes : setSelectedType(t)
    \/ \E pt \in ViewerDownPoints : viewerMouseDown(pt)
    \/ \E pt \in ViewerMovePoints : viewerMouseMove(pt)
    \/ viewerMouseUp
    \/ viewerMouseLeave
    \/ \E i \in 1..(LongestData + MaxCustom) : handleBoxClick(i)
    \/ downloadImage
    \/ Tick

\* ------------------------------------------------------------------------
\* DashboardPage with UploadZone
\* ------------------------------------------------------------------------
\* null, as the empty tuple so that it compares with the URLs, detections and
\* messages the same state variables hold
Null == <<>>

\* files the user selects; each sample button i loads the file <<"sample", i>>
UserFiles == { <<"file", 1>> }
SampleFiles == { <<"sample", 1>>, <<"sample", 2>> }

\* URL.createObjectURL(resizedFile): the preview of that file
objectUrl(file) == <<"blob", file>>
\* the detection the service returns for that file
detection(file) == <<"detection", file>>

AllFiles == UserFiles \cup SampleFiles

DashInit ==
    /\ imageSrc = Null
    /\ result = Null
    /\ isProcessing = FALSE
    /\ error = Null
    /\ tasks = [f \in AllFiles |-> "none"]
    /\ sampleLoads = {}

inFlight == Cardinality({f \in AllFiles : tasks[f] # "none"}) + Cardinality(sampleLoads)

\* handleFileSelect up to `await resizeImage(file, 1024)`
handleFileSelect(file) ==
    /\ tasks[file] = "none"
    /\ isProcessing' = TRUE
    /\ error' = Null
    /\ imageSrc' = Null
    /\ result' = Null
    /\ tasks' = [tasks EXCEPT ![file] = "resize"]

\* handleDrop / handleFileInput of UploadZone, rendered while there is no image;
\* the drop zone ignores the pointer and the input is disabled while processing
fileChosen(file) ==
    /\ imageSrc = Null /\ ~isProcessing
    /\ inFlight < MaxTasks
    /\ handleFileSelect(file)
    /\ ev' = "file"
    /\ UNCHANGED <<rvVars, viewerVars, pureVars>>
    /\ UNCHANGED sampleLoads

\* sample button onClick up to `await fetch(...)`; disabled while processing
sampleClick(file) ==
    /\ imageSrc = Null /\ ~isProcessing
    /\ inFlight < MaxTasks
    /\ file \notin sampleLoads /\ tasks[file] = "none"
    /\ sampleLoads' = sampleLoads \cup {file}
    /\ ev' = "sample"
    /\ UNCHANGED <<rvVars, viewerVars, pureVars>>
    /\ UNCHANGED <<imageSrc, result, isProcessing, error, tasks>>

\* the sample is fetched: onFileSelect(file)
sampleLoaded(file) ==
    /\ file \in sampleLoads
    /\ sampleLoads' = sampleLoads \ {file}
    /\ handleFileSelect(file)
    /\ ev' = "sampleLoaded"
    /\ UNCHANGED <<rvVars, viewerVars, pureVars>>

\* fetch of the sample fails: console.error
sampleFailed(file) ==
    /\ file \in sampleLoads
    /\ sampleLoads' = sampleLoads \ {file}
    /\ ev' = "sampleFailed"
    /\ UNCHANGED <<rvVars, viewerVars, pureVars>>
    /\ UNCHANGED <<imageSrc, result, isProcessing, error, tasks>>

\* resizeImage resolves: setImageSrc(objectUrl), then `await fetch("/api/detect")`
resizeDone(file) ==
    /\ tasks[file] = "resize"
    /\ imageSrc' = objectUrl(file)
    /\ tasks' = [tasks EXCEPT ![file] = "detect"]
    /\ ev' = "resized"
    /\ UNCHANGED <<rvVars, viewerVars, pureVars>>
    /\ UNCHANGED <<result, isProcessing, error, sampleLoads>>

ErrorMessage == <<"Failed to analyze image. Please check your API key and try again.">>

\* resizeImage rejects: catch and finally
resizeFailed(file) ==
    /\ tasks[file] = "resize"
    /\ error' = ErrorMessage
    /\ isProcessing' = FALSE
    /\ tasks' = [tasks EXCEPT ![file] = "none"]
    /\ ev' = "failed"
    /\ UNCHANGED <<rvVars, viewerVars, pureVars>>
    /\ UNCHANGED <<imageSrc, result, sampleLoads>>

\* the response is ok and its body parses: setResult(data), then finally
detectDone(file) ==
    /\ tasks[file] = "detect"
    /\ result' = detection(file)
    /\ isProcessing' = FALSE
    /\ tasks' = [tasks EXCEPT ![file] = "none"]
    /\ ev' = "detected"
    /\ UNCHANGED <<rvVars, viewerVars, pureVars>>
    /\ UNCHANGED <<imageSrc, error, sampleLoads>>

\* fetch rejects, the response is not ok or the body does not parse: catch and finally
detectFailed(file) ==
    /\ tasks[file] = "detect"
    /\ error' = ErrorMessage
    /\ isProcessing' = FALSE
    /\ tasks' = [tasks EXCEPT ![file] = "none"]
    /\ ev' = "failed"
    /\ UNCHANGED <<rvVars, viewerVars, pureVars>>
    /\ UNCHANGED <<imageSrc, result, sampleLoads>>

\* BackButton onClick={reset}, rendered when (imageSrc || result)
reset ==
    /\ imageSrc # Null \/ result # Null
    /\ imageSrc' = Null
    /\ result' = Null
    /\ error' = Null
    /\ ev' = "reset"
    /\ UNCHANGED <<rvVars, viewerVars, pureVars>>
    /\ UNCHANGED <<isProcessing, tasks, sampleLoads>>

NextDash ==
    \/ \E f \in UserFiles : fileChosen(f)
    \/ \E f \in SampleFiles : sampleClick(f)
    \/ \E f \in SampleFiles : sampleLoaded(f)
    \/ \E f \in SampleFiles : sampleFailed(f)
    \/ \E f \in AllFiles : resizeDone(f)
    \/ \E f \in AllFiles : resizeFailed(f)
    \/ \E f \in AllFiles : detectDone(f)
    \/ \E f \in AllFiles : detectFailed(f)
    \/ reset

\* ------------------------------------------------------------------------
\* Specifications: one per component
\* ------------------------------------------------------------------------
\* ------------------------------------------------------------------------
\* Conversions between stored boxes and display rectangles
\* ------------------------------------------------------------------------
\* Percentages are fractions <<numerator, denominator>>.  Display lengths are
\* counted in sub-pixel units (a whole number of units per display pixel, the
\* rendered rectangle being counted in the same units), which the conversions
\* back to storage do not depend on: they only use ratios of display lengths.

\* mutant: x and y are taken for the left and top edge of the box
boxStyle_cornerAnchored(pred, iw, ih) ==
    [left |-> <<2 * pred.x * 100, 2 * iw>>,
     top |-> <<2 * pred.y * 100, 2 * ih>>,
     width |-> <<pred.width * 100, iw>>,
     height |-> <<pred.height * 100, ih>>]

\* left, top, width and height of a rendered box of ResultViewer, in percent:
\* ((pred.x - pred.width / 2) / imageWidth) * 100, ...
boxStyle(pred, iw, ih) ==
    [left |-> <<(2 * pred.x - pred.width) * 100, 2 * iw>>,
     top |-> <<(2 * pred.y - pred.height) * 100, 2 * ih>>,
     width |-> <<pred.width * 100, iw>>,
     height |-> <<pred.height * 100, ih>>]

\* getStyleForBox of Viewer: box is [ymin, xmin, ymax, xmax], style in percent
getStyleForBox(box) ==
    [top |-> <<box[1], 10>>,
     left |-> <<box[2], 10>>,
     height |-> <<box[3] - box[1], 10>>,
     width |-> <<box[4] - box[2], 10>>]

\* a percentage of a length of len display pixels, in units of 1/u pixel
\* (u is a multiple of the denominator of the percentage)
percentOf(pct, len, u) == (pct[1] * len * (u \div pct[2])) \div 100

\* the rectangle the browser lays out for a style in percent of the rendered
\* image (r in display pixels), in units of 1/ux and 1/uy pixel
layoutRect(style, r, ux, uy) ==
    [left |-> percentOf(style.left, r.width, ux),
     top |-> percentOf(style.top, r.height, uy),
     width |-> percentOf(style.width, r.width, ux),
     height |-> percentOf(style.height, r.height, uy)]

\* stored boxes, image sizes and rendered sizes the conversions are applied to
CentreBoxes ==
    { [x |-> 20, y |-> 20, width |-> 20, height |-> 20],
      [x |-> 50, y |-> 30, width |-> 10, height |-> 10],
      [x |-> 37, y |-> 21, width |-> 7, height |-> 3],
      [x |-> 100, y |-> 50, width |-> 40, height |-> 20] }
CornerBoxes ==
    { <<100, 500, 200, 700>>, <<400, 100, 500, 150>>, <<0, 0, 1000, 1000>>, <<1, 2, 999, 3>> }
ImageSizes == { [width |-> 80, height |-> 60], [width |-> 800, height |-> 600] }
RenderedSizes ==
    { [width |-> 40, height |-> 30], [width |-> 800, height |-> 600],
      [width |-> 333, height |-> 250], [width |-> 1000, height |-> 1000] }

NoCoords == [stage |-> "none"]
CoordsIdle == coords = NoCoords

\* a centre-size box inside its image, or a corner box (normalised, so the
\* image size plays no part), with a rendered size
CoordsInit ==
    \/ \E b \in CentreBoxes, im \in ImageSizes, r \in RenderedSizes :
          /\ 2 * b.x + b.width <= 2 * im.width
          /\ 2 * b.y + b.height <= 2 * im.height
          /\ coords = [stage |-> "stored", encoding |-> "centre", stored |-> b,
                       image |-> im, rendered |-> r]
    \/ \E b \in CornerBoxes, r \in RenderedSizes :
          coords = [stage |-> "stored", encoding |-> "corner", stored |-> b,
                    image |-> [width |-> 1000, height |-> 1000], rendered |-> r]

\* sub-pixel units per display pixel in which the display rectangle of the box
\* under conversion is a whole number
unitsX == IF coords.encoding = "centre" THEN 2 * coords.image.width ELSE 1000
unitsY == IF coords.encoding = "centre" THEN 2 * coords.image.height ELSE 1000

\* the box is rendered: its style in percent and the rectangle laid out
renderBox ==
    /\ coords.stage = "stored"
    /\ LET style == IF coords.encoding = "centre"
                     THEN boxStyle(coords.stored, coords.image.width, coords.image.height)
                     ELSE getStyleForBox(coords.stored)
       IN coords' = [stage |-> "shown", encoding |-> coords.encoding, stored |-> coords.stored,
                     image |-> coords.image, rendered |-> coords.rendered,
                     style |-> style,
                     shown |-> layoutRect(style, coords.rendered, unitsX, unitsY)]
    /\ ev' = "render"
    /\ UNCHANGED <<rvVars, viewerVars, dashVars, twVars, labels>>

\* the displayed rectangle is drawn again, corner to corner, and converted as
\* handleMouseUp converts a drag
redrawBox ==
    /\ coords.stage = "shown"
    /\ LET start == <<coords.shown.left, coords.shown.top>>
           cur == <<coords.shown.left + coords.shown.width,
                    coords.shown.top + coords.shown.height>>
           r == [width |-> coords.rendered.width * unitsX,
                 height |-> coords.rendered.height * unitsY]
           p == newPredictionAt(start, cur, Door, "r1", coords.image.width, coords.image.height, r)
           back == IF coords.encoding = "centre"
                   THEN [x |-> p.x, y |-> p.y, width |-> p.width, height |-> p.height]
                   ELSE newEl(getNormalizedCoordsAt(start, r), getNormalizedCoordsAt(cur, r),
                              "window", 0).box_2d
       IN coords' = [stage |-> "restored", encoding |-> coords.encoding, stored |-> coords.stored,
                     image |-> coords.image, rendered |-> coords.rendered,
                     style |-> coords.style, shown |-> coords.shown,
                     added |-> p, restored |-> back]
    /\ ev' = "redraw"
    /\ UNCHANGED <<rvVars, viewerVars, dashVars, twVars, labels>>

\* sizes of the rectangles dragged from the top left corner of the image
DragSizes == { <<12, 12>>, <<9, 12>> }

\* a rectangle is dragged on the image showing the box, and handleMouseUp
\* decides on it and converts it (rendered sizes that divide the image size,
\* for which the quotients of the conversion are whole numbers)
dragOnBox(d) ==
    /\ coords.stage = "shown"
    /\ coords.encoding = "centre"
    /\ coords.image.width % coords.rendered.width = 0
    /\ coords.image.height % coords.rendered.height = 0
    /\ LET start == <<0, 0>>
           first == [class |-> Window, x |-> coords.stored.x, y |-> coords.stored.y,
                     width |-> coords.stored.width, height |-> coords.stored.height,
                     confidence |-> 90, id |-> NoId]
       IN coords' = [stage |-> "dragged", encoding |-> coords.encoding, stored |-> coords.stored,
                     image |-> coords.image, rendered |-> coords.rendered,
                     style |-> coords.style, shown |-> coords.shown,
                     drag |-> d,
                     list |-> IF tooSmall(start, d)
                              THEN <<first>>
                              ELSE <<first,
                                     newPredictionAt(start, d, Door, "r1", coords.image.width,
                                                     coords.image.height, coords.rendered)>>]
    /\ ev' = "mouseup"
    /\ UNCHANGED <<rvVars, viewerVars, dashVars, twVars, labels>>

NextCoords ==
    \/ renderBox
    \/ redrawBox
    \/ \E d \in DragSizes : dragOnBox(d)

\* ------------------------------------------------------------------------
\* useTypewriter
\* ------------------------------------------------------------------------
\* Texts are sequences of characters; time is counted in units of which the
\* speeds and delays are multiples.
Texts == { <<>>, <<"a", "b">>, <<"F", "l", "o">> }
Speeds == {1, 2}
Delays == {0, 2}
LongestDelay == CHOOSE d \in Delays : \A e \in Delays : e <= d

\* text.slice(0, n)
slice(t, n) == SubSeq(t, 1, Min(n, Len(t)))

\* the body of the effect: the timer it leaves pending, with its closure
\* (text, speed, currentIndex = 0)
runEffect(t, s, d, id) ==
    IF d > 0
    THEN [id |-> id, kind |-> "timeout", text |-> t, speed |-> s, currentIndex |-> 0,
          remaining |-> d]
    ELSE [id |-> id, kind |-> "interval", text |-> t, speed |-> s, currentIndex |-> 0,
          remaining |-> s]

\* the cleanup of the effect: clearTimeout(timeoutId); clearInterval(timeoutId)
cleanup == {tm \in timers : tm.id # timeoutId}

\* the hook is not in use
TwIdle ==
    /\ text = <<>> /\ speed = 1 /\ startDelay = 0
    /\ displayText = <<>> /\ isFinished = FALSE
    /\ mounted = FALSE
    /\ effectGen = 0 /\ timeoutId = 0
    /\ timers = {}
    /\ waited = 0

\* after the first render and the first run of the effect
TwInit ==
    \E t \in Texts, s \in Speeds, d \in Delays :
        /\ text = t /\ speed = s /\ startDelay = d
        /\ displayText = <<>> /\ isFinished = FALSE
        /\ mounted = TRUE
        /\ effectGen = 1 /\ timeoutId = 1
        /\ timers = {runEffect(t, s, d, 1)}
        /\ waited = 0

\* one unit of time passes
twElapse ==
    /\ timers # {}
    /\ timers' = {[tm EXCEPT !.remaining = Max(0, tm.remaining - 1)] : tm \in timers}
    /\ waited' = Min(waited + 1, LongestDelay)
    /\ ev' = "elapse"
    /\ UNCHANGED <<rvVars, viewerVars, dashVars, coords, labels>>
    /\ UNCHANGED <<text, speed, startDelay, displayText, isFinished, mounted, effectGen, timeoutId>>

\* the timeout fires: startTyping sets the interval and stores it in timeoutId
twStartTyping ==
    /\ \E tm \in timers :
          /\ tm.kind = "timeout" /\ tm.remaining = 0
          /\ timers' = (timers \ {tm})
                           \cup {[tm EXCEPT !.kind = "interval", !.remaining = tm.speed]}
    /\ ev' = "startTyping"
    /\ UNCHANGED <<rvVars, viewerVars, dashVars, coords, labels>>
    /\ UNCHANGED <<text, speed, startDelay, displayText, isFinished, mounted, effectGen, timeoutId,
                   waited>>

\* mutant: the interval is not cleared when the typing is finished
twInterval_keepsInterval ==
    /\ \E tm \in timers :
          /\ tm.kind = "interval" /\ tm.remaining = 0
          /\ IF tm.currentIndex < Len(tm.text)
             THEN /\ displayText' = slice(tm.text, tm.currentIndex + 1)
                  /\ timers' = (timers \ {tm})
                                   \cup {[tm EXCEPT !.currentIndex = tm.currentIndex + 1,
                                                    !.remaining = tm.speed]}
                  /\ UNCHANGED isFinished
             ELSE /\ isFinished' = TRUE
                  /\ timers' = (timers \ {tm}) \cup {[tm EXCEPT !.remaining = tm.speed]}
                  /\ UNCHANGED displayText
    /\ ev' = "interval"
    /\ UNCHANGED <<rvVars, viewerVars, dashVars, coords, labels>>
    /\ UNCHANGED <<text, speed, startDelay, mounted, effectGen, timeoutId, waited>>

\* the callback of the interval
twInterval ==
    /\ \E tm \in timers :
          /\ tm.kind = "interval" /\ tm.remaining = 0
          /\ IF tm.currentIndex < Len(tm.text)
             THEN /\ displayText' = slice(tm.text, tm.currentIndex + 1)
                  /\ timers' = (timers \ {tm})
                                   \cup {[tm EXCEPT !.currentIndex = tm.currentIndex + 1,
                                                    !.remaining = tm.speed]}
                  /\ UNCHANGED isFinished
             ELSE /\ isFinished' = TRUE
                  /\ timers' = timers \ {tm}
                  /\ UNCHANGED displayText
    /\ ev' = "interval"
    /\ UNCHANGED <<rvVars, viewerVars, dashVars, coords, labels>>
    /\ UNCHANGED <<text, speed, startDelay, mounted, effectGen, timeoutId, waited>>

\* the component renders with other inputs: the dependencies [text, speed,
\* startDelay] differ, so the cleanup of the last effect runs, then the effect
\* (displayText and isFinished are state: a render keeps them)
twInputs(t, s, d) ==
    /\ mounted
    /\ <<t, s, d>> # <<text, speed, startDelay>>
    /\ effectGen <= MaxInputChanges
    /\ text' = t /\ speed' = s /\ startDelay' = d
    /\ effectGen' = effectGen + 1
    /\ timeoutId' = effectGen + 1
    /\ timers' = cleanup \cup {runEffect(t, s, d, effectGen + 1)}
    /\ waited' = 0
    /\ ev' = "inputs"
    /\ UNCHANGED <<rvVars, viewerVars, dashVars, coords, labels>>
    /\ UNCHANGED <<displayText, isFinished, mounted>>

\* the component unmounts: the cleanup of the last effect runs
twUnmount ==
    /\ mounted
    /\ mounted' = FALSE
    /\ timers' = cleanup
    /\ ev' = "unmount"
    /\ UNCHANGED <<rvVars, viewerVars, dashVars, coords, labels>>
    /\ UNCHANGED <<text, speed, startDelay, displayText, isFinished, effectGen, timeoutId, waited>>

\* the hook with the inputs it was mounted with, as Landing uses it
NextTypewriterFixed ==
    \/ twElapse
    \/ twStartTyping
    \/ twInterval

NextTypewriter ==
    \/ twElapse
    \/ twStartTyping
    \/ twInterval
    \/ \E t \in Texts, s \in Speeds, d \in Delays : twInputs(t, s, d)
    \/ twUnmount

\* ------------------------------------------------------------------------
\* Class labels of a scene
\* ------------------------------------------------------------------------
\* the spellings of a word in upper and lower case letters
CaseVariants(w) ==
    {[i \in 1..Len(w) |-> IF i \in S THEN toUpperCase(w[i]) ELSE w[i]] : S \in SUBSET (1..Len(w))}

\* labels as the detection service may report them
RawLabels == CaseVariants(<<"d","o","o","r">>) \cup { <<>>, <<"s","i","n","k">> }

\* rows the legend can show for them
LegendClasses == {formatClassName(r) : r \in RawLabels}

NoLabels == [stage |-> "none"]
LabelsIdle == labels = NoLabels

\* a detection of two elements, before the component is created
LabelsInit ==
    \E a \in RawLabels, b \in RawLabels :
        labels = [stage |-> "raw", raw |-> <<a, b>>, scene |-> <<>>, hidden |-> {},
                  again |-> <<>>]

\* useState(() => predictions.map(p => ({ ...p, class: formatClassName(p.class) })))
createScene ==
    /\ labels.stage = "raw"
    /\ LET given == << Pred(labels.raw[1], 20, 20, 20, 20, 90),
                       Pred(labels.raw[2], 50, 30, 10, 10, 80) >>
       IN labels' = [labels EXCEPT
                        !.stage = "scene",
                        !.scene = [i \in 1..Len(given) |->
                                      [given[i] EXCEPT !.class = formatClassName(given[i].class)]]]
    /\ ev' = "scene"
    /\ UNCHANGED <<rvVars, viewerVars, dashVars, coords, twVars>>

\* a click on a row of the summary panel
toggleLabel(c) ==
    /\ labels.stage = "scene"
    /\ c \in DOMAIN summaryData(labels.scene)
    /\ labels' = [labels EXCEPT !.hidden = toggledClasses(labels.hidden, c)]
    /\ ev' = "legend"
    /\ UNCHANGED <<rvVars, viewerVars, dashVars, coords, twVars>>

\* an element of the selected class is drawn (12 x 12 display pixels)
addLabelled(c) ==
    /\ labels.stage = "scene"
    /\ Len(labels.scene) < Len(labels.raw) + MaxAdded
    /\ LET used == {labels.scene[i].id : i \in 1..Len(labels.scene)}
       IN /\ IdPool \ used # {}
          /\ labels' = [labels EXCEPT
                           !.scene = Append(labels.scene,
                                            newPredictionAt(<<0, 0>>, <<12, 12>>, c,
                                                            CHOOSE id \in IdPool : id \notin used,
                                                            80, 60, rect))]
    /\ ev' = "mouseup"
    /\ UNCHANGED <<rvVars, viewerVars, dashVars, coords, twVars>>

\* formatClassName applied to the classes of the scene
formatAgain ==
    /\ labels.stage = "scene"
    /\ labels' = [labels EXCEPT
                     !.stage = "again",
                     !.again = [i \in 1..Len(labels.scene) |->
                                   formatClassName(labels.scene[i].class)]]
    /\ ev' = "format"
    /\ UNCHANGED <<rvVars, viewerVars, dashVars, coords, twVars>>

NextLabels ==
    \/ createScene
    \/ \E c \in LegendClasses : toggleLabel(c)
    \/ \E c \in ClickedClasses : addLabelled(c)
    \/ formatAgain

ViewerIdle == ViewerInitWith([elements |-> <<>>])
RVIdle == RVInit /\ predictions = <<>> /\ ~renderError /\ imageWidth = 0

InitRV == RVInit /\ ViewerIdle /\ DashInit /\ CoordsIdle /\ TwIdle /\ LabelsIdle /\ ev = "init"
InitViewer == RVIdle /\ ViewerInit /\ DashInit /\ CoordsIdle /\ TwIdle /\ LabelsIdle /\ ev = "init"
InitDash == RVIdle /\ ViewerIdle /\ DashInit /\ CoordsIdle /\ TwIdle /\ LabelsIdle /\ ev = "init"
InitCoords == RVIdle /\ ViewerIdle /\ DashInit /\ CoordsInit /\ TwIdle /\ LabelsIdle /\ ev = "init"
InitTypewriter == RVIdle /\ ViewerIdle /\ DashInit /\ CoordsIdle /\ TwInit /\ LabelsIdle /\ ev = "init"
InitLabels == RVIdle /\ ViewerIdle /\ DashInit /\ CoordsIdle /\ TwIdle /\ LabelsInit /\ ev = "init"

NextRVExport == NextLegend \/ NextExport

\* drawing, removing and toggling in the ResultViewer
SpecRV == InitRV /\ [][NextRV]_vars
\* export of the ResultViewer
SpecExport == InitRV /\ [][NextRVExport]_vars
\* export of the ResultViewer where the 500 ms timer fires and toPng settles;
\* the conversion (fetch, FileReader), the load events and decode() come with
\* no such guarantee
SpecExportLive ==
    /\ InitRV
    /\ [][NextRVExport]_vars
    /\ WF_vars(exportWaitTimeout)
    /\ WF_vars(exportCaptured \/ exportCaptureFailed)
\* the corner-encoding Viewer
SpecViewer == InitViewer /\ [][NextViewer]_vars
\* the dashboard page
SpecDash == InitDash /\ [][NextDash]_vars
\* the dashboard when every promise handleFileSelect awaits settles: the image
\* of resizeImage fires onload or onerror, the fetch resolves or rejects
SpecDashLive ==
    /\ InitDash
    /\ [][NextDash]_vars
    /\ \A f \in AllFiles : WF_vars(resizeDone(f) \/ resizeFailed(f))
    /\ \A f \in AllFiles : WF_vars(detectDone(f) \/ detectFailed(f))
\* a stored box converted to its display rectangle and back
SpecCoords == InitCoords /\ [][NextCoords]_vars
\* the class labels of a scene, from the detection to the legend
SpecLabels == InitLabels /\ [][NextLabels]_vars
\* useTypewriter under renders with changing inputs
SpecTypewriter == InitTypewriter /\ [][NextTypewriter]_vars
\* useTypewriter with fixed inputs; time passes and the timers that are due fire
SpecTypewriterLive ==
    /\ InitTypewriter
    /\ [][NextTypewriterFixed]_vars
    /\ WF_vars(twElapse)
    /\ WF_vars(twStartTyping)
    /\ WF_vars(twInterval)

\* ------------------------------------------------------------------------
\* Properties
\* ------------------------------------------------------------------------
viewerDragging == dragStart # NoPoint /\ currentDrag # NoPoint
rvDragging == drawStart # NoPoint /\ drawCurrent # NoPoint
rvAddMode == isEditing /\ activeTool = "add"

\* s with the element at position i left out
RemoveAt(s, i) == SelectIdx(s, (1..Len(s)) \ {i}, 1)

\* C1: in every reachable scene no two elements have the same id (Viewer) or
\* the same id / geometry-derived key (ResultViewer).
C1_UniqueIds ==
    /\ \A i, j \in 1..Len(elements) : i # j => elements[i].id # elements[j].id
    /\ \A i, j \in 1..Len(localPredictions) :
          i # j => uniqueKey(localPredictions[i]) # uniqueKey(localPredictions[j])

\* C2: a pointer leave during a drag in the add tool clears the drag state and
\* leaves the element list as it was, whatever the size of the drag rectangle.
C2_LeaveCancelsDrag ==
    [][(ev' = "mouseleave" /\ rvAddMode /\ rvDragging)
          => (drawStart' = NoPoint /\ drawCurrent' = NoPoint
              /\ localPredictions' = localPredictions)]_vars

\* width and height of the Viewer drag rectangle in display pixels, times 1000
viewerDragWidth1000 == Abs(currentDrag[1] - dragStart[1]) * viewerRect.width
viewerDragHeight1000 == Abs(currentDrag[2] - dragStart[2]) * viewerRect.height

\* C3: a drag completed by pointerUp in the add tool adds no element when its
\* width or height is below 10 display pixels, and exactly one element when
\* both are at least 10 display pixels (10 included).
C3_MinimumSize ==
    [][(ev' = "mouseup" /\ editAction = "add" /\ viewerDragging)
          => IF viewerDragWidth1000 < 10 * 1000 \/ viewerDragHeight1000 < 10 * 1000
             THEN elements' = elements
             ELSE Len(elements') = Len(elements) + 1
                  /\ SubSeq(elements', 1, Len(elements)) = elements]_vars

\* C4: a class label that has elements before and after an operation keeps
\* its palette colour.
C4_ColourStable ==
    [][\A c \in DOMAIN classColors(localPredictions) \cap DOMAIN classColors(localPredictions') :
          classColors(localPredictions')[c] = classColors(localPredictions)[c]]_vars

\* C5: a click on an element in the remove tool removes that element only: the
\* list gets shorter by exactly one and the others keep their values and order.
C5_RemoveExactlyOne ==
    [][(ev' = "click" /\ editAction = "remove")
          => \E i \in 1..Len(elements) : elements' = RemoveAt(elements, i)]_vars

rvOverlay == overlay(localPredictions, hiddenClasses, imageWidth, imageHeight)
rvClasses == {localPredictions[i].class : i \in 1..Len(localPredictions)}

C8_DragAtomic ==
    [][(drawStart # NoPoint /\ drawStart' # NoPoint) => UNCHANGED rvScene]_vars

\* the file a preview URL was created for
fileOf(src) == src[2]

\* C9: a result held in state was produced for the image currently displayed.
C9_ResultMatchesImage ==
    result # Null => (imageSrc # Null /\ result = detection(fileOf(imageSrc)))

\* C10: no step of the export (generating the preview, saving the image)
\* changes the element list, the hidden classes, the tool, the edit-mode flag
\* or the selected class.
C10_ExportFramesScene ==
    [][ev' \in {"export", "exportFailed", "timeout", "save"} => UNCHANGED rvScene]_vars

C10_Witness ==
    /\ ev = "save"
    /\ downloads > 0
    /\ previewImage # NoPreview
    /\ hiddenClasses # {}
    /\ isEditing /\ activeTool = "remove"
    /\ selectedClass = Window

\* C11: when the capture rejects, the export call ends in an error outcome for
\* its caller (its promise is rejected), the scene is unchanged and no preview
\* is produced or shown for that export.
C11_CaptureFailureSurfaced ==
    [][(exportPc = "capturing" /\ ev' = "exportFailed")
          => /\ exportPromise' = "rejected"
             /\ UNCHANGED rvScene
             /\ previewImage' = previewImage
             /\ showExportModal' = showExportModal]_vars

\* C12: a failed conversion of the image handle during the preparation of an
\* export never aborts the export: it goes on to the load wait or the decode
\* with the original image reference (or the converted one) as its source.
C12_ConversionFallsBack ==
    [][(exportPc = "converting" /\ exportPc' # "converting")
          => /\ exportPc' \in {"waitLoad", "decoding"}
             /\ activeSrc' \in {BlobUrl, DataUrl}]_vars

\* C13: every export that was started ends (preview exposed or failure), with
\* only the timer and the capture being sure to come back.
C13_ExportTerminates ==
    (exportPc # "idle") ~> (exportPc = "idle")

\* area of a corner box [ymin, xmin, ymax, xmax]
viewerArea(el) == (el.box_2d[3] - el.box_2d[1]) * (el.box_2d[4] - el.box_2d[2])

\* elements.filter(el => activeLayers[el.type]): the boxes of the Viewer in the
\* order of the DOM (all boxes carry the class z-10)
viewerOverlay == SelectIdx(elements, {i \in 1..Len(elements) : layerOn(elements[i].type)}, 1)

\* the part of C14 on the ResultViewer: the rendered boxes are in descending
\* order of area
C14_RVOrderByArea ==
    \A i, j \in 1..Len(rvOverlay) : area(rvOverlay[i]) > area(rvOverlay[j]) => i < j

\* C14: among the rendered elements of a scene, an element of larger area has
\* a lower render index than one of smaller area (it is drawn under it).
C14_RenderOrderByArea ==
    /\ C14_RVOrderByArea
    /\ \A i, j \in 1..Len(viewerOverlay) :
          viewerArea(viewerOverlay[i]) > viewerArea(viewerOverlay[j]) => i < j

\* layer maps and keys on which the updater of toggleLayer is evaluated
LayerMaps == [{"window", "door"} -> BOOLEAN]
LayerKeys == {"window", "door", "furniture"}
\* the layers a map hides
hiddenLayers(m) == {k \in LayerKeys : ~layerShown(m, k)}

\* C15: toggling the visibility of a class changes the membership of that
\* class only, and toggling it a second time gives back the original set of
\* hidden classes (toggleClass of ResultViewer on every reachable set,
\* toggleLayer of Viewer on every layer map).
C15_ToggleInvolution ==
    /\ [](\A c \in Range(availableClasses) :
            /\ toggledClasses(toggledClasses(hiddenClasses, c), c) = hiddenClasses
            /\ (toggledClasses(hiddenClasses, c) \ hiddenClasses)
                  \cup (hiddenClasses \ toggledClasses(hiddenClasses, c)) = {c})
    /\ [](\A m \in LayerMaps : \A k \in LayerKeys :
            /\ hiddenLayers(toggledLayers(toggledLayers(m, k), k)) = hiddenLayers(m)
            /\ (hiddenLayers(toggledLayers(m, k)) \ hiddenLayers(m))
                  \cup (hiddenLayers(m) \ hiddenLayers(toggledLayers(m, k))) = {k})
    /\ [][ev' = "legend"
            => \E c \in rvClasses : hiddenClasses' = toggledClasses(hiddenClasses, c)]_vars

C15_Witness ==
    /\ ev = "legend"
    /\ hiddenClasses = {}
    /\ Len(localPredictions) = 2

\* C16: a visibility toggle leaves the element list (ids, classes, boxes,
\* order) as it was, and toggling the same class once more renders exactly the
\* boxes that were rendered before the toggle.
C16_ToggleKeepsData ==
    [][ev' = "legend"
          => /\ localPredictions' = localPredictions
             /\ \E c \in rvClasses :
                   /\ hiddenClasses' = toggledClasses(hiddenClasses, c)
                   /\ overlay(localPredictions', toggledClasses(hiddenClasses', c),
                              imageWidth, imageHeight) = rvOverlay]_vars

C16_Witness ==
    /\ ev = "legend"
    /\ hiddenClasses = {}
    /\ Len(rvOverlay) = 3
    /\ userAdded(localPredictions) # {}

\* pointer events on the image area and on the rendered boxes
PointerEvents == {"mousedown", "mousemove", "mouseup", "mouseleave", "click"}

missingDims == imageWidth = 0 \/ imageHeight = 0

\* C18: when the image width or height is missing no box is placed in the
\* overlay, no step changes the element list, and a pointer-up (or leave) that
\* ends a drag of any size clears the drag state.
C18_MissingDimsSkipped ==
    /\ [](missingDims => rvOverlay = <<>>)
    /\ [][missingDims
            => /\ localPredictions' = localPredictions
               /\ (ev' \in {"mouseup", "mouseleave"})
                     => (drawStart' = NoPoint /\ drawCurrent' = NoPoint)]_vars

C18_Witness ==
    /\ imageWidth # 0 /\ imageHeight = 0
    /\ ev = "mouseup"
    /\ rvAddMode
    /\ drawStart = NoPoint
    /\ Len(localPredictions) = 2

\* C19: a scene built from an empty or malformed predictions list is never in
\* an error state and starts with zero elements (every element it holds was
\* drawn by the user).
C19_EmptyOrMalformedDisplayable ==
    (predictions = <<>>)
        => /\ ~renderError
           /\ userAdded(localPredictions) = 1..Len(localPredictions)

\* C20: a drag that adds an element appends exactly one element at the end of
\* the list, of the selected type, with confidence 1.0 (100 percent) and an id
\* that no element of the list had, and leaves the other elements and their
\* order as they were.
C20_AddAppendsFresh ==
    [][(ev' = "mouseup" /\ Len(elements') > Len(elements))
          => /\ Len(elements') = Len(elements) + 1
             /\ SubSeq(elements', 1, Len(elements)) = elements
             /\ elements'[Len(elements')].type = selectedType
             /\ \A i \in 1..Len(elements) : elements[i].id # elements'[Len(elements')].id
             /\ "confidence" \in DOMAIN elements'[Len(elements')]
             /\ elements'[Len(elements')].confidence = 100]_vars

\* C21: a stored box converted to its display rectangle and converted back by
\* the drawing conversion has its original stored values.
C21_RoundTrip ==
    (coords.stage = "restored") => (coords.restored = coords.stored)

C21_Witness ==
    /\ coords.stage = "restored"
    /\ coords.encoding = "centre"
    /\ coords.stored.width = 7
    /\ coords.image.width = 800 /\ coords.rendered.width = 333

\* number of class labels met in render order before the first element of c
classRank(c) ==
    LET sp == sortedPredictions(localPredictions)
    IN Cardinality({d \in rvClasses : firstIndexOf(sp, d) < firstIndexOf(sp, c)})

C23_AbsentIsNoOp ==
    [][/\ (ev' = "legend")
            => /\ elements' = elements
               /\ \A k \in LayerKeys :
                     (currentSummary(k) = 0)
                        => (layerShown(activeLayers', k) = layerShown(activeLayers, k))
       /\ (ev' = "click" /\ Len(elements') = Len(elements)) => (elements' = elements)]_vars

\* C24: after every pointer-up the drag state is cleared, in every tool and
\* edit-mode state and whether or not an element was added.
C24_PointerUpClearsDrag ==
    [][(ev' = "mouseup")
          => /\ dragStart' = NoPoint /\ currentDrag' = NoPoint
             /\ drawStart' = NoPoint /\ drawCurrent' = NoPoint]_vars

\* the part of C24 on the ResultViewer
C24_RVPointerUpClearsDrag ==
    [][(ev' = "mouseup") => (drawStart' = NoPoint /\ drawCurrent' = NoPoint)]_vars

\* the part of C25 on the ResultViewer (display pixels, image rendered as rect)
C25_RVDragTracksPointer ==
    /\ []((drawStart = NoPoint) <=> (drawCurrent = NoPoint))
    /\ [][/\ (ev' = "mousedown" /\ rvAddMode)
               => (drawStart' # NoPoint /\ drawCurrent' = drawStart')
          /\ (ev' = "mousemove")
               => IF drawStart # NoPoint /\ rvAddMode
                  THEN /\ drawStart' = drawStart
                       /\ drawCurrent'[1] \in 0..rect.width
                       /\ drawCurrent'[2] \in 0..rect.height
                  ELSE UNCHANGED <<rvScene, rvDrag>>]_vars

\* C25: pointer-down in the add tool sets the drag start and the current point
\* to the same point; pointer-move changes state only while a drag is in
\* progress, and then sets the current point to the pointer position clamped
\* to the image (0..1000 normalised) and leaves the start alone; the start and
\* the current point are both null or both set.
C25_DragTracksPointer ==
    /\ C25_RVDragTracksPointer
    /\ []((dragStart = NoPoint) <=> (currentDrag = NoPoint))
    /\ [][/\ (ev' = "mousedown" /\ editAction = "add")
               => (dragStart' # NoPoint /\ currentDrag' = dragStart')
          /\ (ev' = "mousemove")
               => IF dragStart # NoPoint /\ editAction = "add"
                  THEN /\ dragStart' = dragStart
                       /\ currentDrag'[1] \in 0..1000
                       /\ currentDrag'[2] \in 0..1000
                       /\ UNCHANGED <<elements, activeLayers, viewerIsEditing, editAction,
                                      selectedType>>
                  ELSE UNCHANGED <<elements, activeLayers, viewerIsEditing, editAction,
                                   selectedType, dragStart, currentDrag>>]_vars

C25_Witness ==
    /\ ev = "mousemove"
    /\ editAction = "add"
    /\ dragStart = <<0, 0>>
    /\ currentDrag = <<1000, 11>>

\* C26: a drag in progress implies that the add tool is in effect (edit mode
\* on and the add tool selected).
C26_DragImpliesAddTool ==
    /\ (drawStart # NoPoint) => rvAddMode
    /\ (dragStart # NoPoint) => (viewerIsEditing /\ editAction = "add")

\* the part of C27 on the ResultViewer
C27_RVToolFramed ==
    [][/\ (ev' = "panel") => UNCHANGED <<localPredictions, hiddenClasses>>
       /\ (ev' \in PointerEvents \cup {"legend", "export", "exportFailed", "timeout", "save"})
             => UNCHANGED <<activeTool, selectedClass>>
       /\ (isEditing' # isEditing) => UNCHANGED <<activeTool, selectedClass>>]_vars

\* C27: selecting a tool or a class and toggling edit mode leave the element
\* list and the hidden classes unchanged; pointer events, visibility toggles
\* and the export leave the tool and the selected class unchanged; and a
\* change of edit mode does not change the tool either.
C27_ToolFramed ==
    /\ C27_RVToolFramed
    /\ [][/\ (ev' = "panel") => UNCHANGED <<elements, activeLayers>>
          /\ (ev' \in PointerEvents \cup {"legend", "save"})
                => UNCHANGED <<editAction, selectedType>>
          /\ (viewerIsEditing' # viewerIsEditing)
                => UNCHANGED <<editAction, selectedType>>]_vars

\* sum of the counts of the entries of a summary for the classes in S
RECURSIVE SumCounts(_, _)
SumCounts(sd, S) ==
    IF S = {} THEN 0
    ELSE LET c == CHOOSE c \in S : TRUE
         IN sd[c].count + SumCounts(sd, S \ {c})

\* C28: the summary has an entry exactly for the class labels of the current
\* element list; its count is the number of elements with the label, its
\* firstIndex the smallest render index of an element with the label; the
\* counts add up to the length of the element list.
C28_SummaryDerived ==
    LET sd == summaryData(localPredictions)
        sp == sortedPredictions(localPredictions)
    IN /\ DOMAIN sd = rvClasses
       /\ \A c \in rvClasses :
             /\ sd[c].count
                   = Cardinality({i \in 1..Len(localPredictions) : localPredictions[i].class = c})
             /\ sp[sd[c].firstIndex + 1].class = c
             /\ \A j \in 1..sd[c].firstIndex : sp[j].class # c
       /\ SumCounts(sd, DOMAIN sd) = Len(localPredictions)

C28_Witness ==
    /\ ev = "click"
    /\ Len(predictions) = 2
    /\ Len(localPredictions) = 2
    /\ userAdded(localPredictions) # {}
    /\ DOMAIN summaryData(localPredictions) = {Door}

\* C29: the render order is the element list in descending order of area with
\* elements of equal area in their insertion order, and an element just added
\* is rendered after every element at least as large and before every
\* strictly smaller one, the others keeping their order.
C29_StableByArea ==
    /\ [](LET sp == sortedPredictions(localPredictions)
          IN \A i, j \in 1..Len(sp) :
                (i < j)
                   => /\ area(sp[i]) >= area(sp[j])
                      /\ (area(sp[i]) = area(sp[j]))
                            => \E p, q \in 1..Len(localPredictions) :
                                  p < q /\ localPredictions[p] = sp[i]
                                        /\ localPredictions[q] = sp[j])
    /\ [][(Len(localPredictions') > Len(localPredictions))
            => LET sp == sortedPredictions(localPredictions')
                   new == localPredictions'[Len(localPredictions')]
               IN \E k \in 1..Len(sp) :
                     /\ sp[k] = new
                     /\ \A j \in 1..(k - 1) : area(sp[j]) >= area(new)
                     /\ \A j \in (k + 1)..Len(sp) : area(sp[j]) < area(new)
                     /\ RemoveAt(sp, k) = sortedPredictions(localPredictions)]_vars

C29_Witness ==
    /\ ev = "mouseup"
    /\ Len(localPredictions) = 3
    /\ area(localPredictions[3]) = area(localPredictions[1])
    /\ sortedPredictions(localPredictions)[2] = localPredictions[3]

\* a percentage given as a fraction, in hundredths of a percent, rounded
hundredths(pct) == Round(pct[1] * 100, pct[2])

\* the prediction and the image of the worked example
ExampleBox == [x |-> 100, y |-> 50, width |-> 40, height |-> 20]
ExampleImage == [width |-> 800, height |-> 600]

\* C30: a centre-size box is rendered at left (x - width/2) / imageWidth * 100,
\* top (y - height/2) / imageHeight * 100, width / imageWidth * 100 and
\* height / imageHeight * 100 percent; the box x=100, y=50, 40 x 20 on an
\* 800 x 600 image is at left 10.00, top 6.67, width 5.00, height 3.33 percent;
\* a 12 x 12 pixel drag at scale 1:1 then adds a second element, of
\* confidence 1.0.
C30_WorkedExample ==
    /\ (coords.stage \in {"shown", "restored", "dragged"} /\ coords.encoding = "centre")
          => LET b == coords.stored
                 st == coords.style
             IN /\ st.left[1] * 2 * coords.image.width = (2 * b.x - b.width) * 100 * st.left[2]
                /\ st.top[1] * 2 * coords.image.height = (2 * b.y - b.height) * 100 * st.top[2]
                /\ st.width[1] * coords.image.width = b.width * 100 * st.width[2]
                /\ st.height[1] * coords.image.height = b.height * 100 * st.height[2]
                /\ (b = ExampleBox /\ coords.image = ExampleImage)
                      => /\ hundredths(st.left) = 1000
                         /\ hundredths(st.top) = 667
                         /\ hundredths(st.width) = 500
                         /\ hundredths(st.height) = 333
    /\ (coords.stage = "dragged" /\ coords.drag = <<12, 12>>
          /\ coords.rendered = coords.image)
          => /\ Len(coords.list) = 2
             /\ coords.list[2].confidence = 100
             /\ coords.list[2].width = 12 /\ coords.list[2].height = 12

C30_Witness ==
    /\ coords.stage = "dragged"
    /\ coords.stored = ExampleBox
    /\ coords.image = ExampleImage
    /\ coords.rendered = ExampleImage
    /\ coords.drag = <<12, 12>>

\* C31: every element created by drawing lies inside the image: a box drawn
\* in the result viewer has 0 <= x - width/2, x + width/2 <= imageWidth,
\* 0 <= y - height/2 and y + height/2 <= imageHeight (compared doubled, so
\* that the halves stay integers), and a box drawn in the corner-encoding
\* viewer has 0 <= min <= max <= 1000 on both axes.
C31_DrawnInsideImage ==
    /\ \A i \in userAdded(localPredictions) :
          LET p == localPredictions[i]
          IN /\ 0 <= 2 * p.x - p.width
             /\ 2 * p.x + p.width <= 2 * imageWidth
             /\ 0 <= 2 * p.y - p.height
             /\ 2 * p.y + p.height <= 2 * imageHeight
    /\ \A i \in 1..Len(elements) :
          elements[i].id[1] = "custom"
             => LET b == elements[i].box_2d
                IN /\ 0 <= b[1] /\ b[1] <= b[3] /\ b[3] <= 1000
                   /\ 0 <= b[2] /\ b[2] <= b[4] /\ b[4] <= 1000

\* the files whose handleFileSelect has started and not yet reached its finally
outstanding == {f \in AllFiles : tasks[f] # "none"}

\* C32: on the dashboard isProcessing is true exactly while a detection
\* request is outstanding, and at most one request is outstanding at a time:
\* no interleaving of file selections and sample loads starts a second
\* handleFileSelect before the first has finished, and isProcessing is never
\* false while a request is in flight.
C32_OneRequestAtATime ==
    /\ Cardinality(outstanding) <= 1
    /\ isProcessing <=> (outstanding # {})

\* C33: every file selection terminates: once handleFileSelect is invoked
\* isProcessing eventually becomes false, and at the step that ends the
\* selection exactly one of result and error is set: a failed resize, a failed
\* or non-OK response or an unparsable body sets error and leaves result
\* null, a successful response sets result and leaves error null.
C33_SelectionTerminates ==
    /\ isProcessing ~> ~isProcessing
    /\ [][(ev' = "failed" => (~isProcessing' /\ error' # Null /\ result' = Null))
           /\ (ev' = "detected" => (~isProcessing' /\ result' # Null /\ error' = Null))]_vars

IsPrefix(a, b) == Len(a) <= Len(b) /\ SubSeq(b, 1, Len(a)) = a

\* C35: in useTypewriter displayText is always a prefix of the current text,
\* a tick that changes it makes it one character longer, isFinished implies
\* that displayText equals the current text, also across changes of the text,
\* speed and startDelay inputs, and once an effect is cleaned up none of its
\* timers is pending any more.
C35_DisplayIsPrefix ==
    /\ [](IsPrefix(displayText, text))
    /\ [](isFinished => displayText = text)
    /\ [][(ev' = "interval" /\ displayText' # displayText)
            => (Len(displayText') = Len(displayText) + 1 /\ IsPrefix(displayText, displayText'))]_vars
    /\ [](\A tm \in timers : mounted /\ tm.id = timeoutId)

\* C36: in useTypewriter with fixed inputs, the timers firing, no tick happens
\* before startDelay has elapsed, displayText eventually equals text and
\* isFinished eventually becomes true and stays true (also for the empty
\* text); once it is true the interval is cleared and nothing is updated.
C36_TypingCompletes ==
    /\ [][ev' = "interval" => waited >= startDelay]_vars
    /\ <>[](isFinished /\ displayText = text)
    /\ [](isFinished => timers = {})
    /\ [][isFinished => UNCHANGED <<displayText, isFinished>>]_vars

C36_Witness ==
    /\ ev = "interval"
    /\ isFinished
    /\ displayText = text /\ Len(text) = 3
    /\ startDelay > 0
    /\ timers = {}

\* the label an element of the scene under normalisation was made from: the
\* reported label, or the class selected when it was drawn
givenLabel(i) == IF i <= Len(labels.raw) THEN labels.raw[i] ELSE labels.scene[i].class

\* a label with every letter in lower case
lowered(w) == [i \in 1..Len(w) |-> toLowerCase(w[i])]

\* C37: at scene creation every reported class label is normalised to first
\* character upper-case and the rest lower-case; normalising again changes
\* nothing and the empty label stays empty; labels that differ only by letter
\* case form one class (one summary row, one colour, one visibility flag),
\* which is also the class of the Title-Case label offered for drawing.
C37_LabelsNormalised ==
    labels.stage \in {"scene", "again"}
       => LET sc == labels.scene
              n == Len(sc)
              letters == {lowered(givenLabel(i)) : i \in 1..n}
          IN /\ \A i \in 1..Len(labels.raw) :
                   LET r == labels.raw[i]
                       c == sc[i].class
                   IN /\ Len(c) = Len(r)
                      /\ \A k \in 1..Len(r) :
                            /\ lowered(c)[k] = lowered(r)[k]
                            /\ (k = 1) => c[k] \notin Range(LowerChars)
                            /\ (k > 1) => c[k] \notin Range(UpperChars)
             /\ \A i \in 1..n : formatClassName(sc[i].class) = sc[i].class
             /\ (labels.stage = "again") => \A i \in 1..n : labels.again[i] = sc[i].class
             /\ \A i, j \in 1..n :
                   (lowered(givenLabel(i)) = lowered(givenLabel(j))) => sc[i].class = sc[j].class
             /\ Cardinality(DOMAIN summaryData(sc)) = Cardinality(letters)
             /\ Cardinality(DOMAIN classColors(sc)) = Cardinality(letters)
             /\ Len(visiblePredictions(sc, labels.hidden))
                   = Cardinality({i \in 1..n :
                                    lowered(givenLabel(i)) \notin {lowered(h) : h \in labels.hidden}})

\* "dOOr" and "DOOR" reported, a Door drawn next to them, the class hidden
C37_Witness ==
    /\ labels.stage = "again"
    /\ labels.raw = << <<"d","O","O","r">>, <<"D","O","O","R">> >>
    /\ Len(labels.scene) = 3
    /\ labels.scene[3].class = Door
    /\ labels.hidden = {Door}
    /\ DOMAIN summaryData(labels.scene) = {Door}

====
